---- MODULE Spec2Model ----
(***************************************************************************)
(* DMHY Title Filter (src/DMHY-Title-Filter.user.js).                      *)
(*                                                                         *)
(* A string is a sequence of Unicode code points.  The table body is the   *)
(* sequence of its row ids in document order; every row carries the list   *)
(* of its '.title' descendants and its style.display.                      *)
(***************************************************************************)
EXTENDS Integers, Sequences, FiniteSets, TLC

\* The code points the rules and titles of the model are written with.
Chr ==
    [ sp    |-> 32,       \* ' '
      slash |-> 47,       \* '/'
      semi  |-> 59,       \* ';'
      A     |-> 65,       \* 'A'
      lbr   |-> 91,       \* '['
      rbr   |-> 93,       \* ']'
      a     |-> 97,       \* 'a'
      b     |-> 98,       \* 'b'
      bar   |-> 124,      \* '|'
      ti_s  |-> 20307,    \* U+4F53, simplified  (ti, "body")
      ti_t  |-> 39636,    \* U+9AD4, traditional (ti, "body")
      fa_s  |-> 21457,    \* U+53D1, simplified  (fa, "emit" and "hair")
      fa_t  |-> 30332,    \* U+767C, traditional (fa, "emit")
      fa_h  |-> 39662,    \* U+9AEE, traditional (fa, "hair")
      fsemi |-> 65307 ]   \* U+FF1B, full-width ';'

----------------------------------------------------------------------------
\* Built-in string operations, as the script uses them.

\* String.prototype.toLowerCase, one code point.
lowerChar(c) ==
    IF c \in 65..90 THEN c + 32 ELSE c

\* String.prototype.toLowerCase.
toLowerCase(s) ==
    [i \in 1..Len(s) |-> lowerChar(s[i])]

\* String.prototype.trim: the white space of the alphabet is ' '.
trim(s) ==
    LET idx == {i \in 1..Len(s) : s[i] # Chr.sp}
    IN  IF idx = {}
        THEN <<>>
        ELSE SubSeq(s, CHOOSE i \in idx : \A j \in idx : i <= j,
                       CHOOSE i \in idx : \A j \in idx : i >= j)

\* String.prototype.includes.
includes(hay, needle) ==
    \E i \in 0..(Len(hay) - Len(needle)) :
        SubSeq(hay, i + 1, i + Len(needle)) = needle

\* String.prototype.split on a set of one-character separators: every
\* separator ends a segment, so n separators give n + 1 segments.
RECURSIVE splitOn(_, _, _)
splitOn(s, seps, cur) ==
    IF s = <<>>
    THEN <<cur>>
    ELSE IF Head(s) \in seps
         THEN <<cur>> \o splitOn(Tail(s), seps, <<>>)
         ELSE splitOn(Tail(s), seps, Append(cur, Head(s)))

\* Array.prototype.map(x => x.trim()).filter(Boolean) on a list of strings.
RECURSIVE trimAndDropEmpty(_)
trimAndDropEmpty(parts) ==
    IF parts = <<>>
    THEN <<>>
    ELSE LET t == trim(Head(parts))
         IN  IF t = <<>>
             THEN trimAndDropEmpty(Tail(parts))
             ELSE <<t>> \o trimAndDropEmpty(Tail(parts))

----------------------------------------------------------------------------
\* OpenCC converters: the character dictionaries of the two directions.

\* OpenCC.Converter({ from: 'cn', to: 'twp' }), one code point.
toTraditionalChar(c) ==
    CASE c = Chr.ti_s -> Chr.ti_t
      [] c = Chr.fa_s -> Chr.fa_t
      [] OTHER -> c

\* OpenCC.Converter({ from: 'tw', to: 'cn' }), one code point.
toSimplifiedChar(c) ==
    CASE c = Chr.ti_t -> Chr.ti_s
      [] c = Chr.fa_t -> Chr.fa_s
      [] c = Chr.fa_h -> Chr.fa_s
      [] OTHER -> c

\* converters.toTraditional(text)
toTraditional(s) ==
    [i \in 1..Len(s) |-> toTraditionalChar(s[i])]

\* converters.toSimplified(text)
toSimplified(s) ==
    [i \in 1..Len(s) |-> toSimplifiedChar(s[i])]

----------------------------------------------------------------------------
\* new RegExp(body, 'i') and RegExp.prototype.test, for patterns written
\* with the alphabet above: literals, character classes and alternation.

\* Whether new RegExp(body) compiles: a '[' that no ']' closes is a
\* SyntaxError (a lone ']' is a literal).
RECURSIVE regExpCompiles(_, _)
regExpCompiles(s, inClass) ==
    IF s = <<>>
    THEN ~inClass
    ELSE IF inClass
         THEN regExpCompiles(Tail(s), Head(s) # Chr.rbr)
         ELSE regExpCompiles(Tail(s), Head(s) = Chr.lbr)

\* The alternatives of a compiled pattern, each a sequence of atoms, an atom
\* being the set of code points it accepts.
RECURSIVE regExpParse(_, _, _, _)
regExpParse(s, cur, inClass, cls) ==
    IF s = <<>>
    THEN <<cur>>
    ELSE LET c == Head(s)
         IN  IF inClass
             THEN IF c = Chr.rbr
                  THEN regExpParse(Tail(s), Append(cur, cls), FALSE, {})
                  ELSE regExpParse(Tail(s), cur, TRUE, cls \cup {c})
             ELSE IF c = Chr.lbr
                  THEN regExpParse(Tail(s), cur, TRUE, {})
                  ELSE IF c = Chr.bar
                       THEN <<cur>> \o regExpParse(Tail(s), <<>>, FALSE, {})
                       ELSE regExpParse(Tail(s), Append(cur, {c}), FALSE, {})

\* Canonicalize of the 'i' flag: upper case.
canonicalize(c) ==
    IF c \in 97..122 THEN c - 32 ELSE c

\* regex.test(str) for the pattern body, flag 'i'.
regExpTest(body, str) ==
    LET alts == regExpParse(body, <<>>, FALSE, {})
    IN  \E k \in 1..Len(alts) :
            \E pos \in 1..(Len(str) + 1) :
                /\ pos + Len(alts[k]) - 1 <= Len(str)
                /\ \A n \in 1..Len(alts[k]) :
                       \E x \in alts[k][n] :
                           canonicalize(x) = canonicalize(str[pos + n - 1])

----------------------------------------------------------------------------
\* filterTitles: the rule evaluation.

\* The model's bounds.
MaxGroups == 3
TicksPerDelay == 3
MaxInitCalls == 2
MaxBurstEdits == 2

\* The delay of the debounce timer, in ms.
DebounceDelay == 300

\* keywords.split(/[;；]/).map(group => group.trim()).filter(Boolean)
\* with the separators of the regular expression left out of it.
filterGroupsAsciiOnly(keywords) ==
    trimAndDropEmpty(splitOn(keywords, {Chr.semi}, <<>>))

\* keywords.split(/[;；]/).map(group => group.trim()) without filter(Boolean).
filterGroupsKeepEmpty(keywords) ==
    LET parts == splitOn(keywords, {Chr.semi, Chr.fsemi}, <<>>)
    IN  [i \in 1..Len(parts) |-> trim(parts[i])]

\* keywords.split(/[;；]/).map(group => group.trim()).filter(Boolean)
filterGroups(keywords) ==
    trimAndDropEmpty(splitOn(keywords, {Chr.semi, Chr.fsemi}, <<>>))

\* The title's variants without the simplified one.
titleVariantsNoSimplified(title) ==
    << toLowerCase(title),
       toLowerCase(toTraditional(title)) >>

\* titleVariants: the lowercased title and its two conversions.
titleVariants(title) ==
    << toLowerCase(title),
       toLowerCase(toTraditional(title)),
       toLowerCase(toSimplified(title)) >>

\* group.startsWith('/') && group.endsWith('/') && group.length > 2
isRegexGroup(group) ==
    /\ Len(group) > 2
    /\ group[1] = Chr.slash
    /\ group[Len(group)] = Chr.slash

\* group.slice(1, -1)
patternBody(group) ==
    SubSeq(group, 2, Len(group) - 1)

\* The try block of a regex group and its catch block: the pattern is tested
\* against every variant, and when it does not compile the whole group text,
\* lowercased, is searched for in every variant.
matchesRegexGroup(group, variants) ==
    IF regExpCompiles(patternBody(group), FALSE)
    THEN \E i \in 1..Len(variants) : regExpTest(patternBody(group), variants[i])
    ELSE \E i \in 1..Len(variants) : includes(variants[i], toLowerCase(group))

\* group.split('|').map(term => term.trim()).filter(Boolean)
terms(group) ==
    trimAndDropEmpty(splitOn(group, {Chr.bar}, <<>>))

\* terms.flatMap(term => [lower, lower of toTraditional, lower of toSimplified])
RECURSIVE termVariants(_)
termVariants(ts) ==
    IF ts = <<>>
    THEN <<>>
    ELSE << toLowerCase(Head(ts)),
            toLowerCase(toTraditional(Head(ts))),
            toLowerCase(toSimplified(Head(ts))) >> \o termVariants(Tail(ts))

\* A plain group in which an empty list of terms matches every title.
matchesPlainGroupVacuous(group, variants) ==
    LET tvs == termVariants(terms(group))
    IN  \/ tvs = <<>>
        \/ \E i \in 1..Len(variants) :
               \E j \in 1..Len(tvs) : includes(variants[i], tvs[j])

\* titleVariants.some(tv => termVariants.some(t => tv.includes(t)))
matchesPlainGroup(group, variants) ==
    LET tvs == termVariants(terms(group))
    IN  \E i \in 1..Len(variants) :
            \E j \in 1..Len(tvs) : includes(variants[i], tvs[j])

\* The callback of filterGroups.every: one group against the title variants.
matchesGroup(group, variants) ==
    IF isRegexGroup(group)
    THEN matchesRegexGroup(group, variants)
    ELSE matchesPlainGroup(group, variants)

\* filterGroups.every(group => ...)
matchesAllGroups(groups, variants) ==
    \A i \in 1..Len(groups) : matchesGroup(groups[i], variants)

\* A display that a matching row keeps from the pass before.
rowDisplayKeep(matches, old) ==
    IF matches THEN old ELSE "none"

\* row.style.display = matchesAllGroups ? '' : 'none'
rowDisplay(matches, old) ==
    IF matches THEN "" ELSE "none"

\* A fragment that takes every new row at its front.
appendChildFront(fragment, row) ==
    <<row>> \o fragment

\* fragment.appendChild(row)
appendChild(fragment, row) ==
    Append(fragment, row)

\* The rows.forEach that processes the detached rows: a row without a
\* '.title' element makes row.querySelector('.title').textContent throw,
\* which ends the pass where it stands.
RECURSIVE processRows(_, _, _, _, _)
processRows(rows, groups, titles, fragment, disp) ==
    IF rows = <<>>
    THEN [fragment |-> fragment, display |-> disp, thrown |-> FALSE]
    ELSE LET row == Head(rows)
         IN  IF titles[row] = <<>>
             THEN [fragment |-> fragment, display |-> disp, thrown |-> TRUE]
             ELSE LET m == matchesAllGroups(groups,
                                            titleVariants(Head(titles[row])))
                  IN  processRows(Tail(rows), groups, titles,
                                  appendChild(fragment, row),
                                  [disp EXCEPT ![row] = rowDisplay(m, @)])

\* initConverters that constructs on every call.
initConvertersAlways(st) ==
    [st EXCEPT !.converters = [toTraditional |-> st.created.toTraditional + 1,
                               toSimplified |-> st.created.toSimplified + 1],
               !.created = [toTraditional |-> @.toTraditional + 1,
                            toSimplified |-> @.toSimplified + 1]]

\* initConverters: an instance is the ordinal of the OpenCC.Converter call
\* of its direction that made it, 0 is null.
initConverters(st) ==
    IF st.converters.toTraditional = 0 \/ st.converters.toSimplified = 0
    THEN [st EXCEPT !.converters = [toTraditional |-> st.created.toTraditional + 1,
                                    toSimplified |-> st.created.toSimplified + 1],
                    !.created = [toTraditional |-> @.toTraditional + 1,
                                 toSimplified |-> @.toSimplified + 1]]
    ELSE st

\* The rows a sequence of row ids holds.
rowsOf(seq) ==
    {seq[i] : i \in 1..Len(seq)}

\* filterTitles(keywords, table) on the page state st: tbody, display,
\* converters, created (the OpenCC.Converter calls made so far, by direction)
\* and initCalls (the calls of initConverters, counted up to MaxInitCalls).
filterTitles(keywords, st, titles) ==
    IF trim(keywords) = <<>>
    THEN [st EXCEPT !.display =
              [r \in DOMAIN st.display |->
                  IF r \in rowsOf(st.tbody) THEN "" ELSE st.display[r]]]
    ELSE LET init == initConverters(st)
             calls == IF st.initCalls < MaxInitCalls
                      THEN st.initCalls + 1 ELSE st.initCalls
             groups == filterGroups(keywords)
             done == processRows(st.tbody, groups, titles, <<>>, st.display)
         IN  [ tbody |-> IF done.thrown THEN <<>> ELSE done.fragment,
               display |-> done.display,
               converters |-> init.converters,
               created |-> init.created,
               initCalls |-> calls ]

----------------------------------------------------------------------------
\* The state of the page and of the script.

VARIABLES
    inputValue,     \* input.value, the text of the filter box
    debounceTimer,  \* the id the last setTimeout returned, 0 before the first
    timers,         \* the browser's active timers: [id, remaining ms]
    titleElems,     \* per row, the text of its '.title' descendants
    tbody,          \* tbody.children, the attached rows in document order
    display,        \* per row, row.style.display
    converters,     \* the cached OpenCC instances, 0 is null
    created,        \* OpenCC.Converter calls made so far, by direction
    initCalls,      \* calls of initConverters so far, up to MaxInitCalls
    lastPass,       \* <<value>> of the filterTitles call whose result the
                    \* table shows, <<>> before it and after the next edit
    prevHidden,     \* whether that call found a hidden row
    elapsed,        \* ms since the last input event, up to DebounceDelay
    burstEdits,     \* input events of the burst, up to MaxBurstEdits
    burstPasses     \* filterTitles calls since the first edit of the burst

vars ==
    << inputValue, debounceTimer, timers, titleElems, tbody, display,
       converters, created, initCalls, lastPass, prevHidden, elapsed,
       burstEdits, burstPasses >>

\* Titles of rows.
TitleATi == << Chr.A, Chr.ti_t >>
TitleABFa == << Chr.a, Chr.b, Chr.fa_s >>
TitleBracket == << Chr.b, Chr.lbr, Chr.A >>
TitleSlashes == << Chr.slash, Chr.lbr, Chr.A, Chr.slash >>
TitleBarHair == << Chr.a, Chr.bar, Chr.fa_h >>

\* The tables of the site: every row has one '.title' cell.
Tables ==
    { << <<TitleATi>>, <<TitleABFa>>, <<TitleBracket>>, <<TitleBarHair>> >>,
      << <<TitleSlashes>>, <<TitleBarHair>>, <<TitleATi>>, <<TitleABFa>> >> }

\* The table of the rule evaluation.
MatchTables ==
    { << <<TitleATi>>, <<TitleABFa>>, <<TitleBracket>>, <<TitleBarHair>> >> }

\* Tables in which something put a row without a '.title' cell.
FaultTables ==
    { << <<TitleATi>>, <<>>, <<TitleABFa>> >>,
      << <<TitleSlashes>>, <<TitleBarHair>>, <<>> >> }

\* The groups a rule is composed of.
GroupEmpty == <<>>
GroupBars == << Chr.bar, Chr.sp, Chr.bar >>
GroupA == << Chr.sp, Chr.A, Chr.sp >>
GroupTiOrFa == << Chr.ti_s, Chr.bar, Chr.fa_t >>
GroupBadRegex == << Chr.slash, Chr.lbr, Chr.a, Chr.slash >>
GroupRegex == << Chr.slash, Chr.lbr, Chr.a, Chr.b, Chr.rbr, Chr.ti_t, Chr.slash >>

Groups ==
    { GroupEmpty, GroupBars, GroupA, GroupTiOrFa, GroupBadRegex, GroupRegex }

Separators ==
    { Chr.semi, Chr.fsemi }

\* The rules of n groups.
RECURSIVE RulesOf(_)
RulesOf(n) ==
    IF n = 1
    THEN Groups
    ELSE { r \o <<sep>> \o g : r \in RulesOf(n - 1), sep \in Separators, g \in Groups }

\* The rules of up to MaxGroups groups.
MatchRules ==
    UNION { RulesOf(n) : n \in 1..MaxGroups }

\* The texts an edit of the filter box leaves in it.
RuleInputs ==
    { <<>>,
      << Chr.sp, Chr.sp >>,
      << Chr.semi >>,
      << Chr.sp, Chr.fsemi, Chr.semi, Chr.sp >>,
      GroupBars,
      GroupBadRegex,
      << Chr.a >>,
      GroupA \o << Chr.semi >> \o GroupBars \o << Chr.semi >> \o GroupTiOrFa,
      << Chr.slash, Chr.slash >>,
      GroupTiOrFa \o << Chr.fsemi >> \o << Chr.b >>,
      GroupRegex \o << Chr.semi >> \o GroupA }

\* The page state filterTitles works on.
pageState ==
    [ tbody |-> tbody, display |-> display, converters |-> converters,
      created |-> created, initCalls |-> initCalls ]

\* The page as it is loaded, with the rows of table t.
freshPage(t) ==
    [ tbody |-> [i \in 1..Len(t) |-> i],
      display |-> [i \in 1..Len(t) |-> ""],
      converters |-> [toTraditional |-> 0, toSimplified |-> 0],
      created |-> [toTraditional |-> 0, toSimplified |-> 0],
      initCalls |-> 0 ]

\* The length of a clock tick, in ms.
tickLen ==
    DebounceDelay \div TicksPerDelay

\* value.replace(/;/g, '；')
normalizeValue(value) ==
    [i \in 1..Len(value) |-> IF value[i] = Chr.semi THEN Chr.fsemi ELSE value[i]]

\* An id no active timer has and that debounceTimer does not hold.
freshTimerId ==
    CHOOSE i \in 1..(Cardinality(timers) + 2) :
        /\ i # debounceTimer
        /\ \A t \in timers : t.id # i
        /\ \A j \in 1..(i - 1) : j = debounceTimer \/ \E t \in timers : t.id = j

\* The input listener without its clearTimeout.
OnInputNoClear(v) ==
    /\ v # inputValue
    /\ inputValue' = v
    /\ timers' = timers \cup {[id |-> freshTimerId, remaining |-> DebounceDelay]}
    /\ debounceTimer' = freshTimerId
    /\ lastPass' = <<>>
    /\ elapsed' = 0
    /\ burstEdits' = IF elapsed < DebounceDelay
                     THEN (IF burstEdits < MaxBurstEdits
                           THEN burstEdits + 1 ELSE burstEdits)
                     ELSE 1
    /\ burstPasses' = IF elapsed < DebounceDelay THEN burstPasses ELSE 0
    /\ UNCHANGED << titleElems, tbody, display, converters, created,
                    initCalls, prevHidden >>

\* An input event that leaves v in the box: clearTimeout(debounceTimer),
\* then debounceTimer = setTimeout(callback, 300).
OnInput(v) ==
    /\ v # inputValue
    /\ inputValue' = v
    /\ timers' = {t \in timers : t.id # debounceTimer}
                     \cup {[id |-> freshTimerId, remaining |-> DebounceDelay]}
    /\ debounceTimer' = freshTimerId
    /\ lastPass' = <<>>
    /\ elapsed' = 0
    /\ burstEdits' = IF elapsed < DebounceDelay
                     THEN (IF burstEdits < MaxBurstEdits
                           THEN burstEdits + 1 ELSE burstEdits)
                     ELSE 1
    /\ burstPasses' = IF elapsed < DebounceDelay THEN burstPasses ELSE 0
    /\ UNCHANGED << titleElems, tbody, display, converters, created,
                    initCalls, prevHidden >>

\* Time passes: the active timers come closer to their time.
Tick ==
    /\ \/ elapsed < DebounceDelay
       \/ \E t \in timers : t.remaining > 0
    /\ elapsed' = IF elapsed + tickLen >= DebounceDelay
                  THEN DebounceDelay ELSE elapsed + tickLen
    /\ timers' = { [t EXCEPT !.remaining = IF @ > tickLen THEN @ - tickLen ELSE 0]
                   : t \in timers }
    /\ UNCHANGED << inputValue, debounceTimer, titleElems, tbody, display,
                    converters, created, initCalls, lastPass, prevHidden,
                    burstEdits, burstPasses >>

\* A timer whose time has come runs its callback: the value of the box is
\* read, the box is rewritten with full-width separators, and
\* filterTitles(value, table) runs to its end.
TimerFires ==
    \E t \in timers :
        /\ t.remaining = 0
        /\ timers' = timers \ {t}
        /\ \E value \in {inputValue} :
             \E after \in {filterTitles(value, pageState, titleElems)} :
               /\ inputValue' = normalizeValue(value)
               /\ tbody' = after.tbody
               /\ display' = after.display
               /\ converters' = after.converters
               /\ created' = after.created
               /\ initCalls' = after.initCalls
               /\ lastPass' = <<value>>
        /\ prevHidden' = \E r \in DOMAIN display : display[r] = "none"
        /\ burstPasses' = burstPasses + 1
        /\ UNCHANGED << debounceTimer, titleElems, elapsed, burstEdits >>

\* The page after setupUI, with table t.
InitWith(t) ==
    /\ inputValue = <<>>
    /\ debounceTimer = 0
    /\ timers = {}
    /\ titleElems = t
    /\ tbody = freshPage(t).tbody
    /\ display = freshPage(t).display
    /\ converters = freshPage(t).converters
    /\ created = freshPage(t).created
    /\ initCalls = 0
    /\ lastPass = <<>>
    /\ prevHidden = FALSE
    /\ elapsed = DebounceDelay
    /\ burstEdits = 0
    /\ burstPasses = 0

Init ==
    \E t \in Tables : InitWith(t)

Next ==
    \/ \E v \in RuleInputs : OnInput(v)
    \/ Tick
    \/ TimerFires

\* The script on the site's tables.
Spec ==
    Init /\ [][Next]_vars

\* A timer whose time has come: what enables TimerFires.
timerDue ==
    \E t \in timers : t.remaining = 0

\* The same, with the browser's clock running and its due timers served:
\* WF_vars(Tick) and WF_vars(TimerFires), the latter written out with
\* timerDue for ENABLED <<TimerFires>>_vars (a step of TimerFires needs a
\* due timer and nothing else, and it changes timers).
FairSpec ==
    /\ Init
    /\ [][Next]_vars
    /\ WF_vars(Tick)
    /\ ([]<>(~timerDue) \/ []<><<TimerFires>>_vars)

\* The script on a table with a row that has no title cell.
InitFault ==
    \E t \in FaultTables : InitWith(t)

SpecFault ==
    InitFault /\ [][Next]_vars

\* The page 300 ms after a rule was put into the box of the fresh page: the
\* rule evaluation on every rule of up to MaxGroups groups.
InitMatch ==
    \E t \in MatchTables, rule \in MatchRules :
        /\ inputValue = rule
        /\ debounceTimer = 1
        /\ timers = {[id |-> 1, remaining |-> 0]}
        /\ titleElems = t
        /\ tbody = freshPage(t).tbody
        /\ display = freshPage(t).display
        /\ converters = freshPage(t).converters
        /\ created = freshPage(t).created
        /\ initCalls = 0
        /\ lastPass = <<>>
        /\ prevHidden = FALSE
        /\ elapsed = DebounceDelay
        /\ burstEdits = 1
        /\ burstPasses = 0

NextMatch ==
    TimerFires

SpecMatch ==
    InitMatch /\ [][NextMatch]_vars

----------------------------------------------------------------------------
\* The rule grammar as the claims state it, read off the rule text itself.

\* The places of the characters of seps in s, with both ends of s.
cutsOf(s, seps) ==
    {0} \cup {i \in 1..Len(s) : s[i] \in seps} \cup {Len(s) + 1}

\* The number of texts the characters of seps cut s into.
pieceCount(s, seps) ==
    Cardinality(cutsOf(s, seps)) - 1

\* The k-th of them.
pieceAt(s, seps, k) ==
    LET cuts == cutsOf(s, seps)
        lo == CHOOSE c \in cuts : Cardinality({x \in cuts : x < c}) = k - 1
        hi == CHOOSE c \in cuts : Cardinality({x \in cuts : x < c}) = k
    IN  SubSeq(s, lo + 1, hi - 1)

\* The non-empty trimmed texts between the characters of seps.
piecesOf(s, seps) ==
    {trim(pieceAt(s, seps, k)) : k \in 1..pieceCount(s, seps)} \ {<<>>}

\* The non-empty trimmed groups of a rule.
groupsOf(rule) ==
    piecesOf(rule, Separators)

\* The three forms of a text.
formsOf(text) ==
    { toLowerCase(text),
      toLowerCase(toTraditional(text)),
      toLowerCase(toSimplified(text)) }

\* A text delimited as a regular expression.
regexShaped(g) ==
    Len(g) > 2 /\ Head(g) = Chr.slash /\ g[Len(g)] = Chr.slash

\* A text of at least one '|' and nothing but '|' and white space.
barsOnly(g) ==
    /\ \E i \in 1..Len(g) : g[i] = Chr.bar
    /\ \A i \in 1..Len(g) : g[i] \in {Chr.bar, Chr.sp}

\* The pieces of a rule joined again with one separator.
RECURSIVE joinWith(_, _)
joinWith(pieces, sep) ==
    IF Len(pieces) <= 1
    THEN (IF pieces = <<>> THEN <<>> ELSE Head(pieces))
    ELSE Head(pieces) \o <<sep>> \o joinWith(Tail(pieces), sep)

\* The groups of a rule in reverse order, joined with sep.
reversedRule(rule, sep) ==
    LET n == pieceCount(rule, Separators)
    IN  joinWith([k \in 1..n |-> pieceAt(rule, Separators, n + 1 - k)], sep)

\* The rule with each separator replaced by the other one.
swappedSeparators(rule) ==
    [i \in 1..Len(rule) |->
        CASE rule[i] = Chr.semi -> Chr.fsemi
          [] rule[i] = Chr.fsemi -> Chr.semi
          [] OTHER -> rule[i]]

\* The rule without the groups that are empty once trimmed.
RECURSIVE nonEmptyPieces(_, _)
nonEmptyPieces(rule, k) ==
    IF k > pieceCount(rule, Separators)
    THEN <<>>
    ELSE (IF trim(pieceAt(rule, Separators, k)) = <<>>
          THEN <<>> ELSE <<pieceAt(rule, Separators, k)>>)
         \o nonEmptyPieces(rule, k + 1)

\* The display filterTitles gives the rows of the freshly loaded table.
freshDisplay(rule) ==
    filterTitles(rule, freshPage(titleElems), titleElems).display

\* The rows of the table.
Rows ==
    DOMAIN titleElems

\* The title of a row that has one.
titleOf(r) ==
    Head(titleElems[r])

\* A pass ran and no edit followed it; its rule.
passShown ==
    lastPass # <<>>

passRule ==
    Head(lastPass)

----------------------------------------------------------------------------
\* The claims.

\* The rule of the pass is one group delimited as a regular expression
\* whose pattern does not compile.
badRegexRule ==
    /\ passShown
    /\ Cardinality(groupsOf(passRule)) = 1
    /\ \A g \in groupsOf(passRule) :
           regexShaped(g) /\ ~regExpCompiles(SubSeq(g, 2, Len(g) - 1), FALSE)

\* C1: when the pattern of a regex-delimited group does not compile, the
\* pass does not raise and a row matches the group iff the pattern body (the
\* group without its leading and trailing '/'), lowercased, is a substring of
\* at least one of the three lowercased forms of the row's title.
C1_InvalidRegexFallsBackToBody ==
    badRegexRule =>
        /\ rowsOf(tbody) = Rows
        /\ \A r \in Rows :
               display[r] = ""
                   <=> \E g \in groupsOf(passRule), f \in formsOf(titleOf(r)) :
                           includes(f, toLowerCase(SubSeq(g, 2, Len(g) - 1)))

\* C1, the case it is about: such a rule was applied, every row is still in
\* the table, and a row whose title holds the pattern body is hidden.
C1_Witness ==
    /\ badRegexRule
    /\ rowsOf(tbody) = Rows
    /\ \E r \in Rows, g \in groupsOf(passRule) :
           /\ display[r] = "none"
           /\ includes(toLowerCase(titleOf(r)),
                       toLowerCase(SubSeq(g, 2, Len(g) - 1)))

\* A rule of nothing but AND-separators and white space (the empty rule too).
separatorsOnly(rule) ==
    \A i \in 1..Len(rule) : rule[i] \in {Chr.semi, Chr.fsemi, Chr.sp}

\* C2: a pass whose rule is empty, white space, or only AND-separators and
\* white space leaves every row of the table visible, whatever the titles
\* and whatever the passes before it left.
C2_EmptyRuleShowsAll ==
    (passShown /\ separatorsOnly(passRule)) =>
        /\ rowsOf(tbody) = Rows
        /\ \A r \in Rows : display[r] = ""

\* C2, the case it is about: a rule of separators was applied to a table in
\* which the pass before had hidden a row.
C2_Witness ==
    /\ passShown
    /\ separatorsOnly(passRule)
    /\ \E i \in 1..Len(passRule) : passRule[i] \in Separators
    /\ prevHidden
    /\ \A r \in Rows : display[r] = ""

\* C3: a row is visible iff it matches every non-empty trimmed group of the
\* rule taken on its own; the groups in reverse order, with either
\* separator, with the two separators exchanged, and without the empty
\* groups give the same visibility.
C3_AndGroupsIndependent ==
    passShown =>
        /\ \A r \in Rows :
               display[r] = ""
                   <=> \A g \in groupsOf(passRule) : freshDisplay(g)[r] = ""
        /\ display = freshDisplay(reversedRule(passRule, Chr.semi))
        /\ display = freshDisplay(reversedRule(passRule, Chr.fsemi))
        /\ display = freshDisplay(swappedSeparators(passRule))
        /\ display = freshDisplay(joinWith(nonEmptyPieces(passRule, 1), Chr.semi))

\* C3, the case it is about: a rule of two different groups and an empty
\* one, with a row that matches both, and a row that matches one of them on
\* its own and is hidden.
C3_Witness ==
    /\ passShown
    /\ Cardinality(groupsOf(passRule)) = 2
    /\ pieceCount(passRule, Separators) = 3
    /\ \E r \in Rows : display[r] = ""
    /\ \E r \in Rows, g \in groupsOf(passRule) :
           display[r] = "none" /\ freshDisplay(g)[r] = ""

\* The rule of the pass has one non-empty group, a plain one.
plainRule ==
    /\ passShown
    /\ Cardinality(groupsOf(passRule)) = 1
    /\ \A g \in groupsOf(passRule) : ~regexShaped(g)

\* The sub-terms of a plain group: its non-empty trimmed texts between '|'.
subTermsOf(g) ==
    piecesOf(g, {Chr.bar})

\* C4: a row matches a plain group iff one of the three forms of one of its
\* sub-terms is a substring of one of the three forms of the title; a title
\* that holds only a converted form of a sub-term matches.
C4_PlainGroupAnyForm ==
    plainRule =>
        \A r \in Rows, g \in groupsOf(passRule) :
            /\ display[r] = ""
                   <=> \E t \in subTermsOf(g) :
                           \E f \in formsOf(t), h \in formsOf(titleOf(r)) :
                               includes(h, f)
            /\ \A t \in subTermsOf(g) :
                   \/ includes(toLowerCase(titleOf(r)),
                               toLowerCase(toTraditional(t)))
                   \/ includes(toLowerCase(titleOf(r)),
                               toLowerCase(toSimplified(t)))
                   => display[r] = ""

\* Row r holds no sub-term of g as it was typed.
onlyConverted(r, g) ==
    \A t \in subTermsOf(g) : ~includes(toLowerCase(titleOf(r)), toLowerCase(t))

\* C4, the case it is about: one visible row holds only the traditional form
\* of a simplified sub-term, another only the simplified form of a
\* traditional sub-term, and a third row is hidden.
C4_Witness ==
    /\ plainRule
    /\ \E g \in groupsOf(passRule) :
           \E r1 \in Rows, r2 \in Rows, t1 \in subTermsOf(g), t2 \in subTermsOf(g) :
               /\ display[r1] = "" /\ onlyConverted(r1, g)
               /\ toTraditional(t1) # t1
               /\ includes(toLowerCase(titleOf(r1)), toLowerCase(toTraditional(t1)))
               /\ display[r2] = "" /\ onlyConverted(r2, g)
               /\ toSimplified(t2) # t2
               /\ includes(toLowerCase(titleOf(r2)), toLowerCase(toSimplified(t2)))
    /\ \E r \in Rows : display[r] = "none"

\* C5: a pass leaves in the table body exactly the rows it held, in the
\* order they were in; only their display changes.
C5_RowsKeptInOrder ==
    [][tbody' = tbody /\ titleElems' = titleElems]_vars

\* C5, the case it is about: the rows were detached, processed with
\* different outcomes and attached again.
C5_Witness ==
    /\ passShown
    /\ trim(passRule) # <<>>
    /\ Len(tbody) >= 3
    /\ display[tbody[1]] = "none"
    /\ display[tbody[2]] = ""
    /\ tbody = [i \in 1..Len(titleElems) |-> i]

\* C6: a group of '|' and white space only has no sub-terms and matches no
\* title, so a rule that holds one hides every row.
C6_BarsOnlyGroupHidesAll ==
    (passShown /\ \E g \in groupsOf(passRule) : barsOnly(g)) =>
        /\ \A g \in groupsOf(passRule) : barsOnly(g) => subTermsOf(g) = {}
        /\ \A r \in Rows : display[r] = "none"

\* C6, the case it is about: the bars-only group stands between two other
\* groups, and a row that matches both of them is hidden.
C6_Witness ==
    /\ passShown
    /\ pieceCount(passRule, Separators) = 3
    /\ barsOnly(trim(pieceAt(passRule, Separators, 2)))
    /\ trim(pieceAt(passRule, Separators, 1)) # <<>>
    /\ trim(pieceAt(passRule, Separators, 3)) # <<>>
    /\ trim(pieceAt(passRule, Separators, 1)) # trim(pieceAt(passRule, Separators, 3))
    /\ \E r \in Rows :
           /\ freshDisplay(pieceAt(passRule, Separators, 1))[r] = ""
           /\ freshDisplay(pieceAt(passRule, Separators, 3))[r] = ""
           /\ display[r] = "none"

\* C7: the visibility a pass gives depends on its rule and the titles only:
\* after any passes, it is the visibility the rule gives the fresh table.
C7_PassSupersedes ==
    passShown => display = freshDisplay(passRule)

\* C7, the case it is about: the pass before had hidden a row, and this pass
\* evaluated its rule on every row and shows them all.
C7_Witness ==
    /\ passShown
    /\ trim(passRule) # <<>>
    /\ groupsOf(passRule) # {}
    /\ prevHidden
    /\ \A r \in Rows : display[r] = ""

\* What holds of the debounce timer in every state.
debounceSafe ==
    /\ Cardinality(timers) <= 1
    /\ \A t \in timers :
           t.id = debounceTimer /\ t.remaining = DebounceDelay - elapsed
    /\ burstPasses <= 1
    /\ passShown =>
           /\ elapsed = DebounceDelay
           /\ timers = {}
           /\ burstPasses = 1
           /\ inputValue = normalizeValue(passRule)

\* C8: at most one debounce timer is pending; an input event cancels the
\* pending one and starts one of 300 ms; a burst of edits gets one pass, not
\* before 300 ms after its last edit and with the text the box then holds;
\* and a pending timer leads to that pass unless another edit comes first.
C8_Debounced ==
    /\ []debounceSafe
    /\ (timers # {} /\ elapsed > 0) ~> (passShown \/ elapsed = 0)

\* C8, the case it is about: a burst of two edits got its one pass.
C8_Witness ==
    /\ passShown
    /\ burstEdits >= 2
    /\ burstPasses = 1

\* C9: each converter is constructed at most once, by the first pass that
\* calls initConverters; the cache holds those first instances ever after.
C9_ConvertersOnce ==
    /\ created.toTraditional <= 1
    /\ created.toSimplified <= 1
    /\ converters = created
    /\ initCalls >= 1 <=> created.toTraditional = 1
    /\ initCalls >= 1 <=> created.toSimplified = 1

\* C9, the case it is about: initConverters was called again.
C9_Witness ==
    /\ initCalls >= 2
    /\ converters = [toTraditional |-> 1, toSimplified |-> 1]

\* C10: no pass loses rows: also after a pass that an exception ended, the
\* table body holds every row it held before.
C10_NoRowLost ==
    rowsOf(tbody) = Rows

====
